---------------------------- MODULE Spec2Model ----------------------------
(***************************************************************************)
(* Byte-buffer primitives of the low_level exercises: the XOR / one-time   *)
(* pad cipher (c_exercises/solutions/00_otp.c) and the djb2 hash, the      *)
(* xorshift generator and the stream cipher built on them                  *)
(* (exercises/solutions/02_stream.c).                                      *)
(*                                                                         *)
(* A uint8_t is a number in 0..255.  A uint64_t is a sequence of eight     *)
(* uint8_t digits, least significant first (its value, not its layout in   *)
(* memory): all 64-bit arithmetic is done digit by digit and truncated to  *)
(* eight digits, which is arithmetic modulo 2^64.  A struct Buffer is the  *)
(* sequence of its bytes; buf->size is Len and buf->data[i] is buf[i+1].   *)
(***************************************************************************)
EXTENDS Integers, Sequences, FiniteSets

VARIABLES
    buf,        \* the data buffer handed to the primitive (mutated in place)
    key,        \* the key buffer (const)
    state,      \* the uint64_t generator state
    ret,        \* the value returned by the last hash / prng call
    pc,         \* control position: "idle", "crypt_check", "crypt_loop", "trap"
    i,          \* loop index of the running crypt call
    op,         \* name of the last call that returned ("none" before any)
    calls,      \* number of calls that returned
    draws,      \* number of prng calls made by the running / last crypt call
    buf0,       \* history: the data buffer before the first call
    oldBuf,     \* history: the data buffer at entry of the last call
    oldState,   \* history: the generator state before the last prng call
    oldRet,     \* history: the value returned by the call before the last
    hashed,     \* history: the value hash(key) returned to the last crypt call
    allZero,    \* history: every prng output since the last seeding was 0
    key0,       \* history: the key buffer before the first call
    iters,      \* history: loop iterations run by the last call, over its
                \* input (data) and over the 8 bytes of the hash (digest)
    endian,     \* byte order of the platform: "little" or "big"
    mac,        \* the value the last compute_mac call returned
    claimed,    \* the mac argument of the last verify_mac call
    verified,   \* the value the last verify_mac call returned
    macOf,      \* history: the data and key arguments of the last compute_mac call
    files,      \* the file system: for each path, whether a file is there and
                \* its bytes
    argv,       \* the command line of the running program: argc, argv[1..3]
    mpc,        \* control position of main: "off", "start", "size", "alloc",
                \* "read", "crypt", "free", "done"
    size,       \* main's local size
    heap,       \* buffer.data: "none", "live" (allocated) or "freed"
    exit,       \* exit status of the program, NoExit while it runs
    run,        \* number of the run of the program: 1, 2
    envFail,    \* history: an I/O operation on a file that is there, or malloc,
                \* has failed
    called,     \* history: the functions main has called in this run
    seen,       \* history: the generator states of the running / last crypt
                \* call: the seed after the zero check and every state prng
                \* stored
    applied     \* history: the (primitive, key) pairs applied to the buffer an
                \* odd number of times

macVars == <<endian, mac, claimed, verified, macOf>>
fileVars == <<files, argv, mpc, size, heap, exit, run, envFail, called>>

vars == <<buf, key, state, ret, pc, i, op, calls, draws,
          buf0, oldBuf, oldState, oldRet, hashed, allZero, key0, iters, macVars, fileVars, seen,
          applied>>

---------------------------------------------------------------------------
(* Bounds of the model.                                                    *)

\* longest data buffer of the XOR and stream cipher specifications
MaxLen == 3
\* longest key of the XOR cipher specification
MaxKeyLen == 3
\* longest buffer hashed (11 bytes are the shortest input that overflows)
MaxHashLen == 11
\* calls made on one buffer
MaxCalls == 2
\* prng calls made on one state
MaxPrngCalls == 24
\* length of the long buffer of the stream cipher (prng draws of one call)
MaxDraws == 1000
\* longest input file of the stream cipher program
MaxFileLen == 2
\* applications of xor_crypt and crypt to one buffer, in any order
MaxMixCalls == 3

---------------------------------------------------------------------------
(* uint8_t and uint64_t.                                                   *)
(*                                                                         *)
(* The({e(v) : v \in {x}}) is e(x) with x evaluated once and its value     *)
(* named v, as a C expression evaluates an operand once.                   *)

\* the element of a singleton set
The(S) == CHOOSE x \in S : TRUE

\* a ^ b on uint8_t: bit p of the result is the sum of the bits p modulo 2
bxor(a, b) ==
    The({   ((av + bv) % 2)
          + ((av \div 2 + bv \div 2) % 2) * 2
          + ((av \div 4 + bv \div 4) % 2) * 4
          + ((av \div 8 + bv \div 8) % 2) * 8
          + ((av \div 16 + bv \div 16) % 2) * 16
          + ((av \div 32 + bv \div 32) % 2) * 32
          + ((av \div 64 + bv \div 64) % 2) * 64
          + ((av \div 128 + bv \div 128) % 2) * 128 : av \in {a}, bv \in {b}})

\* a | b on uint8_t
bor(a, b) == The({(av + bv + bxor(av, bv)) \div 2 : av \in {a}, bv \in {b}})

RECURSIVE Pow2(_)
Pow2(n) == IF n = 0 THEN 1 ELSE 2 * Pow2(n - 1)

\* the uint64_t of a non-negative integer below 2^31
W_of(n) ==
    <<n % 256, (n \div 256) % 256, (n \div 65536) % 256, (n \div 16777216) % 256,
      0, 0, 0, 0>>

W_Zero == <<0, 0, 0, 0, 0, 0, 0, 0>>

\* digit k (1..8) of a uint64_t, 0 outside
W_digit(x, k) == IF k >= 1 /\ k <= 8 THEN x[k] ELSE 0

\* x << n on uint64_t, 0 < n < 64, n not a multiple of 8: the bits shifted
\* past bit 63 are lost
W_shl(x, n) ==
    The({LET q == n \div 8
             lo == Pow2(n % 8)
             hi == Pow2(8 - (n % 8))
             D(k) == ((W_digit(xv, k - q) * lo) % 256) + (W_digit(xv, k - q - 1) \div hi)
         IN  <<D(1), D(2), D(3), D(4), D(5), D(6), D(7), D(8)>> : xv \in {x}})

\* x >> n on uint64_t, 0 < n < 64, n not a multiple of 8: zeros are shifted in
W_shr(x, n) ==
    The({LET q == n \div 8
             lo == Pow2(n % 8)
             hi == Pow2(8 - (n % 8))
             D(k) == (W_digit(xv, k + q) \div lo) + ((W_digit(xv, k + q + 1) * hi) % 256)
         IN  <<D(1), D(2), D(3), D(4), D(5), D(6), D(7), D(8)>> : xv \in {x}})

\* x ^ y on uint64_t
W_xor(x, y) ==
    The({LET D(k) == bxor(xv[k], yv[k])
         IN  <<D(1), D(2), D(3), D(4), D(5), D(6), D(7), D(8)>> : xv \in {x}, yv \in {y}})

RECURSIVE W_add_from(_, _, _, _, _)
\* digits k..8 of x + y appended to acc, carry being the carry into digit k;
\* the carry out of digit 8 is dropped
W_add_from(x, y, k, carry, acc) ==
    IF k > 8 THEN acc
    ELSE The({W_add_from(x, y, k + 1, s \div 256, Append(acc, s % 256)) :
                 s \in {x[k] + y[k] + carry}})

\* x + y on uint64_t (mod 2^64)
W_add(x, y) == The({W_add_from(xv, yv, 1, 0, <<>>) : xv \in {x}, yv \in {y}})

---------------------------------------------------------------------------
(* xor_crypt                                                               *)

RECURSIVE xor_loop_cyclic(_, _, _)
\* the loop of xor_crypt from index j on: buf->data[j] ^= key->data[j % key->size]
xor_loop_cyclic(b, k, j) ==
    IF j < Len(b)
    THEN The({xor_loop_cyclic(b2, k, j + 1) :
                 b2 \in {[b EXCEPT ![j + 1] = bxor(b[j + 1], k[(j % Len(k)) + 1])]}})
    ELSE b

RECURSIVE xor_loop_clamped(_, _, _)
\* xor_loop_cyclic with the key index clamped to the last key byte, not wrapped
xor_loop_clamped(b, k, j) ==
    IF j < Len(b)
    THEN The({xor_loop_clamped(b2, k, j + 1) :
                 b2 \in {[b EXCEPT ![j + 1] =
                            bxor(b[j + 1], k[(IF j < Len(k) THEN j ELSE Len(k) - 1) + 1])]}})
    ELSE b

RECURSIVE xor_loop_or(_, _, _)
\* xor_loop_cyclic with |= in place of ^=
xor_loop_or(b, k, j) ==
    IF j < Len(b)
    THEN The({xor_loop_or(b2, k, j + 1) :
                 b2 \in {[b EXCEPT ![j + 1] = bor(b[j + 1], k[(j % Len(k)) + 1])]}})
    ELSE b

\* xor_loop_cyclic with a byte written past the end of the buffer
xor_loop_past(b, k, j) == The({r \o <<0>> : r \in {xor_loop_cyclic(b, k, j)}})

RECURSIVE xor_loop_next(_, _, _)
\* xor_loop_cyclic with key->data[(j + 1) % key->size]
xor_loop_next(b, k, j) ==
    IF j < Len(b)
    THEN The({xor_loop_next(b2, k, j + 1) :
                 b2 \in {[b EXCEPT ![j + 1] = bxor(b[j + 1], k[((j + 1) % Len(k)) + 1])]}})
    ELSE b

xor_loop(b, k, j) == xor_loop_cyclic(b, k, j)

\* xor_crypt(buf, key), key->size > 0 or buf->size = 0
xor_crypt(b, k) == xor_loop(b, k, 0)

---------------------------------------------------------------------------
(* hash                                                                    *)

HASH_INIT == 5381

\* one iteration: hash = (hash << 5U) + hash + buf->data[i]
hash_step_shift5(h, byte) ==
    The({W_add(W_add(W_shl(hv, 5), hv), W_of(byte)) : hv \in {h}})

\* the iteration with hash << 6U in place of hash << 5U
hash_step_shift6(h, byte) ==
    The({W_add(W_add(W_shl(hv, 6), hv), W_of(byte)) : hv \in {h}})

hash_step(h, byte) == hash_step_shift5(h, byte)

RECURSIVE hash_loop(_, _, _)
\* the loop of hash from index j on, h being the accumulator
hash_loop(b, j, h) ==
    IF j < Len(b)
    THEN The({hash_loop(b, j + 1, h2) : h2 \in {hash_step(h, b[j + 1])}})
    ELSE h

\* uint64_t hash = 5381; the loop; return hash
hash_from_init(b) == hash_loop(b, 0, W_of(HASH_INIT))

\* hash with the accumulator started at 0
hash_from_zero(b) == hash_loop(b, 0, W_Zero)

\* hash with its loop started at index 1
hash_skip_first(b) == hash_loop(b, 1, W_of(HASH_INIT))

\* hash with its loop stopped one byte early
hash_drop_last(b) == hash_from_init(SubSeq(b, 1, Len(b) - 1))

\* hash(buf)
hash(b) == hash_from_init(b)

---------------------------------------------------------------------------
(* prng                                                                    *)

\* x ^= x << 13
xs_shl13(x) == The({W_xor(xv, W_shl(xv, 13)) : xv \in {x}})

\* x ^= x >> 7
xs_shr7(x) == The({W_xor(xv, W_shr(xv, 7)) : xv \in {x}})

\* x ^= x << 17
xs_shl17(x) == The({W_xor(xv, W_shl(xv, 17)) : xv \in {x}})

\* the three statements in the order of the code
xorshift_13_7_17(x) == xs_shl17(xs_shr7(xs_shl13(x)))

\* the three statements with the last two exchanged
xorshift_13_17_7(x) == xs_shr7(xs_shl17(xs_shl13(x)))

\* the three statements followed by an increment
xorshift_inc(x) == W_add(xorshift_13_7_17(x), W_of(1))

\* the first statement alone
xorshift_13(x) == xs_shl13(x)

\* the three statements, the first one being x ^= x
xorshift_0_7_17(x) == xs_shl17(xs_shr7(W_xor(x, x)))

xorshift(x) == xorshift_13_7_17(x)

\* uint64_t x = *state; ...; return *state = x;
prng_store_return(s) == The({[state |-> x, ret |-> x] : x \in {xorshift(s)}})

\* prng(&state): the new *state and the value returned
prng(s) == prng_store_return(s)

---------------------------------------------------------------------------
(* crypt                                                                   *)

\* 0xFFFFFFFF
ZERO_STATE_FALLBACK == <<255, 255, 255, 255, 0, 0, 0, 0>>

\* if (!state) state = 0xFFFFFFFF;
zero_check_fallback(s) == IF s = W_Zero THEN ZERO_STATE_FALLBACK ELSE s

\* the statement left out
zero_check_missing(s) == s

zero_check(s) == zero_check_fallback(s)

\* one iteration at index j: key_byte = prng(&state) & 0xFF;
\* buf->data[j] ^= key_byte.  The buffer, the state and prng's return value
\* after it.
crypt_iter_low8(b, s, j) ==
    The({[buf |-> [b EXCEPT ![j + 1] = bxor(b[j + 1], r.ret[1])],
          state |-> r.state,
          ret |-> r.ret] : r \in {prng(s)}})

\* the iteration with the key byte taken from bits 8..15
crypt_iter_byte1(b, s, j) ==
    The({[buf |-> [b EXCEPT ![j + 1] = bxor(b[j + 1], r.ret[2])],
          state |-> r.state,
          ret |-> r.ret] : r \in {prng(s)}})

\* the iteration with buf->data[j] += key_byte
crypt_iter_plus(b, s, j) ==
    The({[buf |-> [b EXCEPT ![j + 1] = (b[j + 1] + r.ret[1]) % 256],
          state |-> r.state,
          ret |-> r.ret] : r \in {prng(s)}})

crypt_iter(b, s, j) == crypt_iter_low8(b, s, j)

\* uint64_t state = hash(key): a local, initialised at every call
crypt_seed_local(k) == hash(k)

\* the state kept from the call before, as a static local set once would be
crypt_seed_static(k) == IF calls = 0 THEN hash(k) ELSE state

crypt_seed(k) == crypt_seed_local(k)

RECURSIVE crypt_loop(_, _, _)
\* the loop of crypt from index j on, s being the state: the buffer at the end
crypt_loop(b, s, j) ==
    IF j < Len(b)
    THEN The({crypt_loop(r.buf, r.state, j + 1) : r \in {crypt_iter(b, s, j)}})
    ELSE b

\* crypt(buf, key) from entry to return: the buffer it leaves
crypt(b, k) == crypt_loop(b, zero_check(crypt_seed(k)), 0)

---------------------------------------------------------------------------
(* compute_mac and verify_mac                                              *)

\* the eight digits of a uint64_t, last first
W_reverse(x) == The({<<xv[8], xv[7], xv[6], xv[5], xv[4], xv[3], xv[2], xv[1]>> : xv \in {x}})

\* (uint8_t *)&mac: the 8 bytes of a uint64_t in the order of their
\* addresses, which is the order of the digits on a little-endian platform
\* and the reverse on a big-endian one; and the uint64_t of 8 such bytes
mem_bytes(x, e) == IF e = "little" THEN x ELSE W_reverse(x)

\* mac = hash(data); hash_buf = { sizeof(mac), (uint8_t *)&mac };
\* xor_crypt(&hash_buf, key); return mac  (key->size > 0)
compute_mac_keyed(data, k, e) ==
    The({mem_bytes(xor_crypt(mem_bytes(h, e), k), e) : h \in {hash(data)}})

\* compute_mac without the xor_crypt call
compute_mac_unkeyed(data, k, e) == hash(data)

\* compute_mac using key->data[0] for every byte of the hash
compute_mac_key0(data, k, e) == compute_mac_keyed(data, <<k[1]>>, e)

compute_mac(data, k, e) == compute_mac_keyed(data, k, e)

\* return compute_mac(data, key) == mac  (key->size > 0)
verify_mac_equal(data, k, m, e) == (compute_mac(data, k, e) = m)

\* verify_mac with != in place of ==
verify_mac_unequal(data, k, m, e) == (compute_mac(data, k, e) # m)

\* verify_mac comparing the claimed value with the hash, not with the MAC
verify_mac_hash(data, k, m, e) == (hash(data) = m)

verify_mac(data, k, m, e) == verify_mac_equal(data, k, m, e)

---------------------------------------------------------------------------
(* Inputs.                                                                 *)

RECURSIVE SeqsUpTo(_, _)
\* all sequences over S of length at most n
SeqsUpTo(S, n) ==
    IF n = 0 THEN {<<>>}
    ELSE LET shorter == SeqsUpTo(S, n - 1)
         IN  shorter \cup {Append(s, x) : s \in {t \in shorter : Len(t) = n - 1}, x \in S}

DataBytes == {0, 90, 255}
KeyBytes == {1, 255}
HashBytes == {0, 255}
\* bytes an out-of-bounds read of the key may find
StrayBytes == {0, 165}

DataBufs == SeqsUpTo(DataBytes, MaxLen)
XorKeys == SeqsUpTo(KeyBytes, MaxKeyLen)
HashBufs == SeqsUpTo(HashBytes, MaxHashLen)

\* "password"
Password == <<112, 97, 115, 115, 119, 111, 114, 100>>
\* "[XPOQLO\MH^XV", a key whose hash is 0
ZeroHashKey == <<91, 88, 80, 79, 81, 76, 79, 92, 77, 72, 94, 88, 86>>

CryptKeys == SeqsUpTo(KeyBytes, MaxKeyLen - 1) \cup {Password, ZeroHashKey}
PrngStates ==
    {W_Zero, W_of(1), ZERO_STATE_FALLBACK, <<0, 0, 0, 0, 0, 0, 0, 128>>,
     <<255, 255, 255, 255, 255, 255, 255, 255>>, hash(Password), hash(<<1>>)}
\* MaxDraws zero bytes: the ciphertext of it is the keystream
LongBuf == [k \in 1..MaxDraws |-> 0]
StreamKeys == {<<1>>, Password, ZeroHashKey}

\* "This message should be authenticated"
Message ==
    <<84, 104, 105, 115, 32, 109, 101, 115, 115, 97, 103, 101, 32, 115,
      104, 111, 117, 108, 100, 32, 98, 101, 32, 97, 117, 116, 104, 101,
      110, 116, 105, 99, 97, 116, 101, 100>>
\* "s3cr3t_p4ssw0rd"
MainKey ==
    <<115, 51, 99, 114, 51, 116, 95, 112, 52, 115, 115, 119, 48, 114, 100>>

MacMsgs == SeqsUpTo(DataBytes, MaxLen - 1) \cup {Message}
MacKeys == SeqsUpTo(KeyBytes, MaxKeyLen - 1) \cup {MainKey}
\* the values a byte is replaced by: 0 and 't'
TamperBytes == {0, 116}
\* the places where a byte of b is replaced: the first MaxLen and the last
TamperAt(b) == {n \in 1..Len(b) : n <= MaxLen \/ n = Len(b)}
\* the mac arguments verify_mac is called with: m, m + 1 and m with bit 63
\* inverted
ClaimedMacs(m) == {m, W_add(m, W_of(1)), [m EXCEPT ![8] = bxor(m[8], 128)]}
\* the bytes that eight out-of-bounds reads of the key may find
StrayReads == {<<a, b, a, b, a, b, a, b>> : a \in StrayBytes, b \in StrayBytes}

---------------------------------------------------------------------------
(* Loop headers and the state before any call.                             *)

RECURSIVE for_iters_below(_, _)
\* the iterations of for (i = j; i < n; i++), whose body changes neither i
\* nor n
for_iters_below(j, n) == IF j < n THEN 1 + for_iters_below(j + 1, n) ELSE 0

RECURSIVE for_iters_upto(_, _)
\* the iterations of the loop with i <= n as its condition
for_iters_upto(j, n) == IF j <= n THEN 1 + for_iters_upto(j + 1, n) ELSE 0

for_iters(j, n) == for_iters_below(j, n)

NoIters == [data |-> 0, digest |-> 0]

\* no compute_mac or verify_mac call was made
NoMac ==
    /\ mac = W_Zero
    /\ claimed = W_Zero
    /\ verified = FALSE
    /\ macOf = [data |-> <<>>, key |-> <<>>]

\* the paths of the command lines, and a path with no file / with a file
Paths == {"in", "out", "back"}
NoFile == [exists |-> FALSE, data |-> <<>>]
File(d) == [exists |-> TRUE, data |-> d]
\* the exit status of a program that has not returned
NoExit == -1

\* no program is running
NoProgram ==
    /\ files = [p \in Paths |-> NoFile]
    /\ argv = [argc |-> 0, input |-> "in", output |-> "out", key |-> <<>>]
    /\ mpc = "off"
    /\ size = 0
    /\ heap = "none"
    /\ exit = NoExit
    /\ run = 0
    /\ envFail = FALSE
    /\ called = {}

---------------------------------------------------------------------------
(* The XOR cipher: xor_crypt called on one buffer, again and again.        *)

InitXor ==
    /\ buf \in DataBufs
    /\ key \in XorKeys
    /\ state = W_Zero
    /\ ret = W_Zero
    /\ pc = "idle"
    /\ i = 0
    /\ op = "none"
    /\ calls = 0
    /\ draws = 0
    /\ buf0 = buf
    /\ oldBuf = buf
    /\ oldState = W_Zero
    /\ oldRet = W_Zero
    /\ hashed = W_Zero
    /\ allZero = TRUE
    /\ key0 = key
    /\ iters = NoIters
    /\ NoMac
    /\ seen = {}
    /\ applied = {}
    /\ NoProgram
    /\ endian = "little"

\* xor_crypt(&buf, &key).  With key->size = 0 and a non-empty buffer the
\* first iteration evaluates i % 0, which is undefined: the division traps
\* (SIGFPE) or yields some index, and key->data[index] is then a byte
\* outside the key.
XorCrypt ==
    /\ pc = "idle"
    /\ calls < MaxCalls
    /\ oldBuf' = buf
    /\ \/ /\ Len(key) > 0 \/ Len(buf) = 0
          /\ buf' = xor_crypt(buf, key)
          /\ iters' = [data |-> for_iters(0, Len(buf)), digest |-> 0]
          /\ pc' = "idle"
       \/ /\ Len(key) = 0 /\ Len(buf) > 0
          /\ pc' = "trap"
          /\ buf' = buf
          /\ iters' = NoIters
       \/ /\ Len(key) = 0 /\ Len(buf) > 0
          /\ pc' = "idle"
          /\ iters' = [data |-> for_iters(0, Len(buf)), digest |-> 0]
          /\ \E stray \in [1..Len(buf) -> StrayBytes] :
                 buf' = [k \in 1..Len(buf) |-> bxor(buf[k], stray[k])]
    /\ op' = "xor_crypt"
    /\ calls' = calls + 1
    /\ UNCHANGED <<key, state, ret, i, draws, buf0, oldState, oldRet, hashed, allZero,
                   key0, macVars, fileVars, seen, applied>>

NextXor == XorCrypt

SpecXor == InitXor /\ [][NextXor]_vars

---------------------------------------------------------------------------
(* Claims about xor_crypt (specification SpecXor).                         *)

\* bit p of a byte
BitOf(a, p) == (a \div Pow2(p)) % 2

\* C1: XOR involution.  For every buffer (any length, 0 included) and every
\* key of length >= 1, two successive xor_crypt calls with the same key
\* leave the buffer byte for byte equal to the original.
C1_XorInvolution ==
    (op = "xor_crypt" /\ pc = "idle" /\ Len(key) >= 1 /\ calls = 2) => buf = buf0

\* the second call has returned and undone a first call that changed bytes
\* with a key shorter than the data
C1_Witness ==
    /\ op = "xor_crypt" /\ pc = "idle" /\ calls = 2
    /\ Len(key) >= 1 /\ Len(buf) > Len(key)
    /\ oldBuf # buf0
    /\ buf = buf0

\* C2: after xor_crypt with a key of length >= 1 the buffer keeps its size
\* and every byte i is the old byte i XOR key[i mod key.size], bit by bit:
\* a short key is used cyclically, of a long key only the prefix is used.
C2_XorPointwise ==
    (op = "xor_crypt" /\ pc = "idle" /\ Len(key) >= 1) =>
        /\ Len(buf) = Len(oldBuf)
        /\ \A n \in 0..(Len(buf) - 1) : \A p \in 0..7 :
               BitOf(buf[n + 1], p) =
                   (BitOf(oldBuf[n + 1], p) + BitOf(key[(n % Len(key)) + 1], p)) % 2

\* a key of two different bytes was wrapped around over three data bytes
C2_Witness ==
    /\ op = "xor_crypt" /\ pc = "idle"
    /\ Len(key) = 2 /\ key[1] # key[2]
    /\ Len(buf) = 3
    /\ buf[3] = bxor(oldBuf[3], key[1])
    /\ buf[3] # bxor(oldBuf[3], key[2])

\* C3: xor_crypt called with a key of length 0 and a non-empty buffer fails
\* fast with an explicit error outcome and leaves the buffer unchanged.
C3_XorRejectsEmptyKey ==
    (op = "xor_crypt" /\ Len(key) = 0 /\ Len(oldBuf) > 0) =>
        (pc = "error" /\ buf = oldBuf)

---------------------------------------------------------------------------
(* The hash: hash called on one buffer, again and again.                   *)

InitHash ==
    /\ buf \in HashBufs
    /\ key = <<>>
    /\ state = W_Zero
    /\ ret = W_Zero
    /\ pc = "idle"
    /\ i = 0
    /\ op = "none"
    /\ calls = 0
    /\ draws = 0
    /\ buf0 = buf
    /\ oldBuf = buf
    /\ oldState = W_Zero
    /\ oldRet = W_Zero
    /\ hashed = W_Zero
    /\ allZero = TRUE
    /\ key0 = key
    /\ iters = NoIters
    /\ NoMac
    /\ seen = {}
    /\ applied = {}
    /\ NoProgram
    /\ endian = "little"

\* ret = hash(&buf): the buffer is const, the accumulator is a local
HashCall ==
    /\ pc = "idle"
    /\ calls < MaxCalls
    /\ ret' = hash(buf)
    /\ oldRet' = ret
    /\ oldBuf' = buf
    /\ op' = "hash"
    /\ calls' = calls + 1
    /\ iters' = [data |-> for_iters(0, Len(buf)), digest |-> 0]
    /\ UNCHANGED <<buf, key, state, pc, i, draws, buf0, oldState, hashed, allZero,
                   key0, macVars, fileVars, seen, applied>>

NextHash == HashCall

SpecHash == InitHash /\ [][NextHash]_vars

---------------------------------------------------------------------------
(* Claims about hash (specification SpecHash).                             *)

RECURSIVE N_mul33_from(_, _, _, _, _)
\* digits k..n of x * 33 + carry * 256^(k-1) appended to acc
N_mul33_from(x, n, k, carry, acc) ==
    IF k > n THEN acc
    ELSE The({N_mul33_from(x, n, k + 1, p \div 256, Append(acc, p % 256)) :
                 p \in {x[k] * 33 + carry}})

RECURSIVE Djb2(_, _, _)
\* the djb2 recurrence h_0 = 5381, h_j = h_(j-1) * 33 + b[j-1], folded over
\* the first j bytes of b, on numbers of n base-256 digits (mod 256^n)
Djb2(b, j, n) ==
    IF j = 0
    THEN [k \in 1..n |-> IF k = 1 THEN 5381 % 256 ELSE IF k = 2 THEN 5381 \div 256 ELSE 0]
    ELSE The({N_mul33_from(h, n, 1, b[j], <<>>) : h \in {Djb2(b, j - 1, n)}})

\* C4: hash(buf) is the djb2 recurrence h_0 = 5381, h_i = h_(i-1) * 33 +
\* buf[i-1] modulo 2^64 over all bytes in order: the shift-add form of the
\* code gives the multiply-by-33 value for every buffer, and an overflow
\* wraps without an error outcome.
C4_HashIsDjb2 ==
    (op = "hash") => (ret = Djb2(buf, Len(buf), 8) /\ pc = "idle")

\* the untruncated djb2 value of the hashed buffer does not fit 64 bits
C4_Witness ==
    /\ op = "hash" /\ pc = "idle"
    /\ LET wide == Djb2(buf, Len(buf), 10)
       IN  /\ wide[9] + wide[10] > 0
           /\ ret = SubSeq(wide, 1, 8)

\* C5: the hash of the empty buffer is exactly 5381, and a second call on
\* the same bytes returns the value of the first.
C5_HashEmptyDeterministic ==
    (op = "hash") =>
        /\ (Len(buf) = 0 => ret = <<5381 % 256, 5381 \div 256, 0, 0, 0, 0, 0, 0>>)
        /\ (calls >= 2 => ret = oldRet)

\* the empty buffer was hashed twice
C5_Witness ==
    /\ op = "hash" /\ calls = 2
    /\ buf = <<>>
    /\ ret = W_of(5381) /\ oldRet = ret

---------------------------------------------------------------------------
(* The generator: prng called on one state variable, again and again.      *)

InitPrng ==
    /\ buf = <<>>
    /\ key = <<>>
    /\ state \in PrngStates
    /\ ret = W_Zero
    /\ pc = "idle"
    /\ i = 0
    /\ op = "none"
    /\ calls = 0
    /\ draws = 0
    /\ buf0 = buf
    /\ oldBuf = buf
    /\ oldState = state
    /\ oldRet = W_Zero
    /\ hashed = W_Zero
    /\ allZero = TRUE
    /\ key0 = key
    /\ iters = NoIters
    /\ NoMac
    /\ seen = {}
    /\ applied = {}
    /\ NoProgram
    /\ endian = "little"

\* ret = prng(&state)
PrngCall ==
    /\ pc = "idle"
    /\ calls < MaxPrngCalls
    /\ \E r \in {prng(state)} :
          /\ state' = r.state
          /\ ret' = r.ret
          /\ allZero' = (allZero /\ r.ret = W_Zero)
    /\ oldState' = state
    /\ oldRet' = ret
    /\ op' = "prng"
    /\ calls' = calls + 1
    /\ draws' = draws + 1
    /\ UNCHANGED <<buf, key, pc, i, buf0, oldBuf, hashed, key0, iters, macVars, fileVars, seen, applied>>

NextPrng == PrngCall

SpecPrng == InitPrng /\ [][NextPrng]_vars

---------------------------------------------------------------------------
(* Claims about prng (specification SpecPrng).                             *)

\* bit n (0..63) of a uint64_t
W_bit(x, n) == (x[(n \div 8) + 1] \div Pow2(n % 8)) % 2

\* C6: prng computes x = *state; x ^= x << 13; x ^= x >> 7; x ^= x << 17 on
\* 64 bits in this order, stores x into *state and returns the same x.  Bit
\* by bit: a left shift by s moves bit n - s to bit n and fills with zeros,
\* a right shift by s moves bit n + s to bit n.
C6_PrngXorshift ==
    (op = "prng") =>
        LET x0(n) == W_bit(oldState, n)
            x1(n) == (x0(n) + (IF n >= 13 THEN x0(n - 13) ELSE 0)) % 2
            x2(n) == (x1(n) + (IF n + 7 <= 63 THEN x1(n + 7) ELSE 0)) % 2
            x3(n) == (x2(n) + (IF n >= 17 THEN x2(n - 17) ELSE 0)) % 2
        IN  /\ \A n \in 0..63 : W_bit(state, n) = x3(n)
            /\ ret = state

\* a call on a state with bit 63 set, where the left shifts lose bits, has
\* returned and changed the state
C6_Witness ==
    /\ op = "prng"
    /\ W_bit(oldState, 63) = 1 /\ W_bit(oldState, 0) = 1
    /\ state # oldState
    /\ ret = state

\* C7: zero is a fixed point of prng: called on state 0 it leaves the state 0
\* and returns 0, so from state 0 every later state and output is 0.
C7_PrngZeroFixed ==
    (op = "prng" /\ oldState = W_Zero) => (state = W_Zero /\ ret = W_Zero /\ allZero)

\* three calls from state 0 have returned 0
C7_Witness ==
    /\ op = "prng" /\ calls >= 3
    /\ oldState = W_Zero /\ state = W_Zero /\ ret = W_Zero /\ allZero

---------------------------------------------------------------------------
(* The stream cipher: crypt called on one buffer, again and again, one     *)
(* action per statement of its body.                                       *)

InitCryptWith(bufs, keys) ==
    /\ buf \in bufs
    /\ key \in keys
    /\ state = W_Zero
    /\ ret = W_Zero
    /\ pc = "idle"
    /\ i = 0
    /\ op = "none"
    /\ calls = 0
    /\ draws = 0
    /\ buf0 = buf
    /\ oldBuf = buf
    /\ oldState = W_Zero
    /\ oldRet = W_Zero
    /\ hashed = W_Zero
    /\ allZero = TRUE
    /\ key0 = key
    /\ iters = NoIters
    /\ NoMac
    /\ seen = {}
    /\ applied = {}
    /\ NoProgram
    /\ endian = "little"

\* crypt(&buf, &key) entered: uint64_t state = hash(key);
CryptCall ==
    /\ pc = "idle"
    /\ calls < MaxCalls
    /\ \E h \in {crypt_seed(key)} :
          /\ state' = h
          /\ hashed' = h
    /\ oldBuf' = buf
    /\ draws' = 0
    /\ allZero' = TRUE
    /\ iters' = NoIters
    /\ pc' = "crypt_check"
    /\ seen' = {}
    /\ UNCHANGED <<buf, key, ret, i, op, calls, buf0, oldState, oldRet, key0, macVars, fileVars, applied>>

\* if (!state) state = 0xFFFFFFFF; and the loop's i = 0
CryptZeroCheck ==
    /\ pc = "crypt_check"
    /\ state' = zero_check(state)
    /\ i' = 0
    /\ pc' = "crypt_loop"
    /\ seen' = {zero_check(state)}
    /\ UNCHANGED <<buf, key, ret, op, calls, draws, buf0, oldBuf, oldState, oldRet,
                   hashed, allZero, key0, iters, macVars, fileVars, applied>>

\* one iteration of the loop, i < buf->size
CryptStep ==
    /\ pc = "crypt_loop"
    /\ i < Len(buf)
    /\ \E r \in {crypt_iter(buf, state, i)} :
          /\ buf' = r.buf
          /\ state' = r.state
          /\ ret' = r.ret
          /\ seen' = seen \cup {r.state}
          /\ allZero' = (allZero /\ r.ret = W_Zero)
    /\ oldState' = state
    /\ oldRet' = ret
    /\ draws' = draws + 1
    /\ i' = i + 1
    /\ iters' = [iters EXCEPT !.data = @ + 1]
    /\ UNCHANGED <<key, pc, op, calls, buf0, oldBuf, hashed, key0, macVars, fileVars, applied>>

\* the loop left at i = buf->size, crypt returns
CryptReturn ==
    /\ pc = "crypt_loop"
    /\ i >= Len(buf)
    /\ pc' = "idle"
    /\ op' = "crypt"
    /\ calls' = calls + 1
    /\ UNCHANGED <<buf, key, state, ret, i, draws, buf0, oldBuf, oldState, oldRet,
                   hashed, allZero, key0, iters, macVars, fileVars, seen, applied>>

NextCrypt == CryptCall \/ CryptZeroCheck \/ CryptStep \/ CryptReturn

InitCrypt == InitCryptWith(DataBufs, CryptKeys)

SpecCrypt == InitCrypt /\ [][NextCrypt]_vars

\* crypt on a buffer of MaxDraws bytes
InitStream == InitCryptWith({LongBuf}, StreamKeys)

SpecStream == InitStream /\ [][NextCrypt]_vars

---------------------------------------------------------------------------
(* Claims about crypt (specifications SpecCrypt and SpecStream).           *)

RECURSIVE PrngOutput(_, _)
\* the value the n-th prng call returns, n >= 1, on a state that starts at s
PrngOutput(s, n) ==
    IF n = 1 THEN prng(s).ret
    ELSE The({PrngOutput(t, n - 1) : t \in {prng(s).state}})

\* C8: crypt seeds the generator with hash(key), replaced by 0xFFFFFFFF when
\* that hash is 0, and sets byte i, for i = 0..size-1, to the old byte i XOR
\* the low 8 bits of the (i+1)-th prng output from that seed; prng is called
\* exactly once per data byte.
C8_CryptKeystream ==
    (op = "crypt" /\ pc = "idle") =>
        LET h == hash(key)
            seed == IF h = W_Zero THEN <<255, 255, 255, 255, 0, 0, 0, 0>> ELSE h
        IN  /\ draws = Len(buf)
            /\ Len(buf) = Len(oldBuf)
            /\ \A n \in 1..Len(buf) :
                   buf[n] = bxor(oldBuf[n], PrngOutput(seed, n)[1] % 256)

\* crypt has returned from a call on three bytes under the key whose hash
\* is 0
C8_Witness ==
    /\ op = "crypt" /\ pc = "idle"
    /\ hash(key) = W_Zero
    /\ Len(buf) = 3 /\ draws = 3
    /\ buf # oldBuf

\* C9: stream cipher involution.  For every buffer and every non-empty key,
\* two successive crypt calls with the same key restore the buffer byte for
\* byte.
C9_CryptInvolution ==
    (op = "crypt" /\ pc = "idle" /\ Len(key) >= 1 /\ calls = 2) => buf = buf0

\* the second call has returned and undone a first call that changed a
\* buffer of three bytes
C9_Witness ==
    /\ op = "crypt" /\ pc = "idle" /\ calls = 2
    /\ Len(key) >= 1 /\ Len(buf) = 3
    /\ oldBuf # buf0
    /\ buf = buf0

\* C10: zero-state fallback.  When hash(key) is 0 the generator starts from
\* 0xFFFFFFFF, which is not 0 and not a fixed point of prng, and the outputs
\* drawn from it in the call (up to MaxDraws of them) are not all 0.
C10_ZeroSeedFallback ==
    (pc = "crypt_loop" /\ hashed = W_Zero) =>
        /\ (i = 0 => /\ state = <<255, 255, 255, 255, 0, 0, 0, 0>>
                     /\ state # W_Zero
                     /\ prng(state).state # state)
        /\ (i >= 1 => ~allZero)

\* a thousand outputs have been drawn after a seed of 0 was replaced
C10_Witness ==
    /\ pc = "crypt_loop"
    /\ hash(key) = W_Zero /\ hashed = W_Zero
    /\ i >= 1000 /\ draws >= 1000
    /\ ~allZero

\* C11: crypt called with a key of length 0 rejects the call explicitly and
\* leaves the data buffer unchanged: it never enters its loop with a
\* keystream seeded from the hash of the empty key.
C11_CryptRejectsEmptyKey ==
    (Len(key) = 0) =>
        /\ pc # "crypt_loop"
        /\ (op = "crypt" => (pc = "error" /\ buf = oldBuf))

---------------------------------------------------------------------------
(* The MAC: compute_mac on a message and a key, verify_mac of the claimed  *)
(* value, one byte of the message or of the key replaced, verify_mac       *)
(* again, as main does.                                                    *)

InitMacWith(msgs, keys) ==
    /\ buf \in msgs
    /\ key \in keys
    /\ endian \in {"little", "big"}
    /\ state = W_Zero
    /\ ret = W_Zero
    /\ pc = "idle"
    /\ i = 0
    /\ op = "none"
    /\ calls = 0
    /\ draws = 0
    /\ buf0 = buf
    /\ oldBuf = buf
    /\ oldState = W_Zero
    /\ oldRet = W_Zero
    /\ hashed = W_Zero
    /\ allZero = TRUE
    /\ key0 = key
    /\ iters = NoIters
    /\ NoMac
    /\ seen = {}
    /\ applied = {}
    /\ NoProgram

\* mac = compute_mac(&buf, &key).  With key->size = 0 the xor_crypt call on
\* the 8 bytes of the hash evaluates i % 0, which is undefined: a trap, or 8
\* reads outside the key.
ComputeMacCall ==
    /\ pc = "idle"
    /\ macOf' = [data |-> buf, key |-> key]
    /\ oldBuf' = buf
    /\ \/ /\ Len(key) > 0
          /\ mac' = compute_mac(buf, key, endian)
          /\ iters' = [data |-> for_iters(0, Len(buf)), digest |-> for_iters(0, 8)]
          /\ pc' = "idle"
       \/ /\ Len(key) = 0
          /\ mac' = mac
          /\ iters' = [data |-> for_iters(0, Len(buf)), digest |-> 0]
          /\ pc' = "trap"
       \/ /\ Len(key) = 0
          /\ \E stray \in StrayReads :
                 mac' = mem_bytes(W_xor(mem_bytes(hash(buf), endian), stray), endian)
          /\ iters' = [data |-> for_iters(0, Len(buf)), digest |-> for_iters(0, 8)]
          /\ pc' = "idle"
    /\ op' = "compute_mac"
    /\ calls' = calls + 1
    /\ UNCHANGED <<buf, key, state, ret, i, draws, buf0, oldState, oldRet, hashed,
                   allZero, key0, endian, claimed, verified, fileVars, seen, applied>>

\* verified = verify_mac(&buf, &key, m)
VerifyMacCall(m) ==
    /\ pc = "idle"
    /\ claimed' = m
    /\ oldBuf' = buf
    /\ \/ /\ Len(key) > 0
          /\ verified' = verify_mac(buf, key, m, endian)
          /\ iters' = [data |-> for_iters(0, Len(buf)), digest |-> for_iters(0, 8)]
          /\ pc' = "idle"
       \/ /\ Len(key) = 0
          /\ verified' = verified
          /\ iters' = [data |-> for_iters(0, Len(buf)), digest |-> 0]
          /\ pc' = "trap"
       \/ /\ Len(key) = 0
          /\ \E stray \in StrayReads :
                 verified' =
                     (mem_bytes(W_xor(mem_bytes(hash(buf), endian), stray), endian) = m)
          /\ iters' = [data |-> for_iters(0, Len(buf)), digest |-> for_iters(0, 8)]
          /\ pc' = "idle"
    /\ op' = "verify_mac"
    /\ calls' = calls + 1
    /\ UNCHANGED <<buf, key, state, ret, i, draws, buf0, oldState, oldRet, hashed,
                   allZero, key0, endian, mac, macOf, fileVars, seen, applied>>

\* main: uint64_t mac = compute_mac(&msg_buf, &key_buf)
MacCompute ==
    /\ op = "none"
    /\ ComputeMacCall

\* main: verify_mac(&msg_buf, &key_buf, mac), and the same call with another
\* third argument
MacVerify ==
    /\ op \in {"compute_mac", "tamper"}
    /\ \E m \in ClaimedMacs(mac) : VerifyMacCall(m)

\* main: message[0] = 't', at any place and with any other byte, once
TamperMsg ==
    /\ pc = "idle"
    /\ op = "verify_mac" /\ claimed = mac
    /\ buf = macOf.data /\ key = macOf.key
    /\ \E n \in TamperAt(buf), b \in TamperBytes :
          /\ b # buf[n]
          /\ buf' = [buf EXCEPT ![n] = b]
    /\ op' = "tamper"
    /\ UNCHANGED <<key, state, ret, pc, i, calls, draws, buf0, oldBuf, oldState, oldRet,
                   hashed, allZero, key0, iters, macVars, fileVars, seen, applied>>

\* the same for one byte of the key verify_mac is then called with
TamperKey ==
    /\ pc = "idle"
    /\ op = "verify_mac" /\ claimed = mac
    /\ buf = macOf.data /\ key = macOf.key
    /\ \E n \in 1..Len(key), b \in TamperBytes :
          /\ b # key[n]
          /\ key' = [key EXCEPT ![n] = b]
    /\ op' = "tamper"
    /\ UNCHANGED <<buf, state, ret, pc, i, calls, draws, buf0, oldBuf, oldState, oldRet,
                   hashed, allZero, key0, iters, macVars, fileVars, seen, applied>>

NextMac == MacCompute \/ MacVerify \/ TamperMsg \/ TamperKey

InitMac == InitMacWith(MacMsgs, MacKeys)

SpecMac == InitMac /\ [][NextMac]_vars

---------------------------------------------------------------------------
(* The claims about compute_mac and verify_mac                             *)

\* byte j (0..7) of the uint64_t x in the order of the addresses
MemByte(x, j, e) == IF e = "little" THEN x[j + 1] ELSE x[8 - j]

\* the number of places where two buffers of one length differ
DiffCount(a, b) == Cardinality({n \in 1..Len(a) : a[n] # b[n]})

\* compute_mac has just returned / verify_mac has just returned, the key
\* being a Key Buffer (size >= 1)
MacComputed == op = "compute_mac" /\ Len(key) >= 1
MacVerified == op = "verify_mac" /\ Len(key) >= 1

\* C12: compute_mac(data, key) with key length >= 1 returns the 64-bit integer
\* whose byte j, in the memory order of the integer, is byte j of hash(data)
\* XOR key[j mod key.size], for j = 0..7.
C12_ComputeMacBytes ==
    MacComputed =>
        \A h \in {hash(buf)} : \A j \in 0..7 :
            MemByte(mac, j, endian) =
                bxor(MemByte(h, j, endian), key[(j % Len(key)) + 1])

C12_Witness ==
    /\ MacComputed
    /\ pc = "idle"
    /\ buf = Message
    /\ key = MainKey
    /\ endian = "big"
    /\ mac # hash(Message)

\* C13: verify_mac(data, key, mac) returns true if and only if
\* compute_mac(data, key) equals mac; whatever the claimed value, the outcome
\* is a boolean and the call returns normally.
C13_VerifyIffEqual ==
    MacVerified =>
        /\ pc = "idle"
        /\ verified \in BOOLEAN
        /\ verified <=> (compute_mac_keyed(buf, key, endian) = claimed)

C13_Witness ==
    /\ MacVerified
    /\ pc = "idle"
    /\ claimed # mac
    /\ verified = FALSE
    /\ buf = macOf.data
    /\ key = macOf.key

\* C14: verify_mac(D, K, compute_mac(D, K)) is true for every message D and
\* every key K.
C14_MacCorrect ==
    (MacVerified /\ claimed = mac /\ buf = macOf.data /\ key = macOf.key) =>
        verified = TRUE

C14_Witness ==
    /\ MacVerified
    /\ claimed = mac
    /\ buf = macOf.data
    /\ key = macOf.key
    /\ Len(buf) = 2
    /\ Len(key) = 2
    /\ verified = TRUE

\* C15: for every non-empty message D, key K and position i, D' being D with
\* byte i replaced by a different byte, verify_mac(D', K, compute_mac(D, K))
\* is false.
C15_MacDetectsMessageByte ==
    (/\ MacVerified
     /\ claimed = mac
     /\ key = macOf.key
     /\ DiffCount(buf, macOf.data) = 1) =>
        verified = FALSE

C15_Witness ==
    /\ MacVerified
    /\ claimed = mac
    /\ key = macOf.key
    /\ Len(buf) = MaxLen - 1
    /\ buf[Len(buf)] # macOf.data[Len(buf)]
    /\ verified = FALSE

\* C16, as stated: for every message D, key K and position i < K.size, K'
\* being K with byte i replaced by a different byte,
\* verify_mac(D, K', compute_mac(D, K)) is false.
C16_MacDetectsKeyByte ==
    (/\ MacVerified
     /\ claimed = mac
     /\ buf = macOf.data
     /\ DiffCount(key, macOf.key) = 1) =>
        verified = FALSE

\* C16, amended: the same for every position i < min(K.size, 8), the 8 bytes of
\* the hash being all that the key is applied to.
C16_MacDetectsKeyByteBelow8 ==
    (/\ MacVerified
     /\ claimed = mac
     /\ buf = macOf.data
     /\ DiffCount(key, macOf.key) = 1
     /\ \E n \in 1..8 : n <= Len(key) /\ key[n] # macOf.key[n]) =>
        verified = FALSE

C16_Witness ==
    /\ MacVerified
    /\ claimed = mac
    /\ buf = macOf.data
    /\ macOf.key = MainKey
    /\ key[8] # MainKey[8]
    /\ verified = FALSE

\* C17: with the message "This message should be authenticated" and the key
\* "s3cr3t_p4ssw0rd", V = compute_mac(message, key) verifies, and no longer
\* verifies once the first byte of the message is 't'.
C17_MainScenario ==
    (/\ MacVerified
     /\ macOf = [data |-> Message, key |-> MainKey]
     /\ key = MainKey
     /\ claimed = mac) =>
        /\ buf = Message => verified = TRUE
        /\ buf = [Message EXCEPT ![1] = 116] => verified = FALSE

C17_Witness ==
    /\ MacVerified
    /\ macOf = [data |-> Message, key |-> MainKey]
    /\ key = MainKey
    /\ claimed = mac
    /\ buf = [Message EXCEPT ![1] = 116]
    /\ verified = FALSE

---------------------------------------------------------------------------
(* The stream cipher program: main run on an input file, and run again on  *)
(* the file it wrote, one action per statement of main; the crypt call is  *)
(* the crypt of the stream cipher above.                                   *)

\* the contents of the input file, and the keys of the command line
FileContents == SeqsUpTo(DataBytes, MaxFileLen)
FileKeys == {Password, <<1>>}

InitFile ==
    /\ \E d \in FileContents, there \in BOOLEAN :
          files = [p \in Paths |-> IF p = "in" /\ there THEN File(d) ELSE NoFile]
    /\ \E c \in {3, 4}, k \in FileKeys :
          argv = [argc |-> c, input |-> "in", output |-> "out", key |-> k]
    /\ mpc = "start"
    /\ size = 0
    /\ heap = "none"
    /\ exit = NoExit
    /\ run = 1
    /\ envFail = FALSE
    /\ called = {}
    /\ buf = <<>>
    /\ key = <<>>
    /\ state = W_Zero
    /\ ret = W_Zero
    /\ pc = "idle"
    /\ i = 0
    /\ op = "none"
    /\ calls = 0
    /\ draws = 0
    /\ buf0 = <<>>
    /\ oldBuf = <<>>
    /\ oldState = W_Zero
    /\ oldRet = W_Zero
    /\ hashed = W_Zero
    /\ allZero = TRUE
    /\ key0 = <<>>
    /\ iters = NoIters
    /\ NoMac
    /\ seen = {}
    /\ applied = {}
    /\ endian = "little"

\* what the primitives work on, left alone by the statements of main
primVars == <<state, ret, pc, i, calls, draws, oldBuf, oldState, oldRet, hashed,
              allZero, iters, macVars>>

\* return 1
MainFailsStatus1 ==
    /\ exit' = 1
    /\ mpc' = "done"

\* return 0 in place of return 1
MainFailsStatus0 ==
    /\ exit' = 0
    /\ mpc' = "done"

MainFails == MainFailsStatus1

\* if (argc != 4) { ...; return 1; }
MainArgs ==
    /\ mpc = "start"
    /\ IF argv.argc # 4
       THEN MainFails
       ELSE mpc' = "size" /\ exit' = exit
    /\ UNCHANGED <<buf, key, op, buf0, key0, primVars,
                   files, argv, size, heap, run, envFail, called, seen, applied>>

\* size = get_file_size(input_path): 0 if the file cannot be opened or
\* sought, its length otherwise; if (size == 0) { ...; return 1; }
MainGetSize ==
    /\ mpc = "size"
    /\ \E ok \in BOOLEAN :
          /\ ok => files[argv.input].exists
          /\ size' = IF ok THEN Len(files[argv.input].data) ELSE 0
          /\ envFail' = (envFail \/ (~ok /\ files[argv.input].exists))
    /\ called' = called \cup {"get_file_size"}
    /\ IF size' = 0
       THEN MainFails
       ELSE mpc' = "alloc" /\ exit' = exit
    /\ UNCHANGED <<buf, key, op, buf0, key0, primVars, files, argv, heap, run, seen, applied>>

\* buffer = { size, malloc(size) }; if (buffer.data == NULL) { ...; return 1; }
MainAlloc ==
    /\ mpc = "alloc"
    /\ \E ok \in BOOLEAN :
          /\ envFail' = (envFail \/ ~ok)
          /\ IF ok
             THEN heap' = "live" /\ mpc' = "read" /\ exit' = exit
             ELSE heap' = heap /\ MainFails
    /\ called' = called \cup {"malloc"}
    /\ UNCHANGED <<buf, key, op, buf0, key0, primVars, files, argv, size, run, seen, applied>>

\* if (!read_file(input_path, &buffer)) { ...; return 1; } and
\* key_buf = { strlen(key), key }.  read_file is false if the file cannot be
\* opened or fread reads fewer than buf->size bytes.
MainRead ==
    /\ mpc = "read"
    /\ \E ok \in BOOLEAN :
          /\ ok => (files[argv.input].exists /\ Len(files[argv.input].data) = size)
          /\ envFail' = (envFail \/ ~ok)
          /\ IF ok
             THEN /\ buf' = files[argv.input].data
                  /\ key' = argv.key
                  /\ mpc' = "crypt"
                  /\ exit' = exit
             ELSE /\ UNCHANGED <<buf, key, seen, applied>>
                  /\ MainFails
    /\ buf0' = buf'
    /\ key0' = key'
    /\ op' = "read_file"
    /\ called' = called \cup {"read_file"}
    /\ UNCHANGED <<primVars, files, argv, size, heap, run, seen, applied>>

\* crypt(&buffer, &key_buf), entered
MainCrypt ==
    /\ mpc = "crypt"
    /\ op = "read_file"
    /\ CryptCall

\* if (!write_file(output_path, &buffer)) { ...; return 1; }.  write_file is
\* false if the file cannot be opened for writing, or, the file being
\* created or truncated, fwrite writes fewer than buf->size bytes.
MainWrite ==
    /\ mpc = "crypt"
    /\ pc = "idle"
    /\ op = "crypt"
    /\ \/ /\ files' = [files EXCEPT ![argv.output] = File(buf)]
          /\ mpc' = "free"
          /\ UNCHANGED <<exit, envFail, seen, applied>>
       \/ /\ files' = files
          /\ envFail' = TRUE
          /\ MainFails
       \/ /\ \E n \in 0..(Len(buf) - 1) :
                files' = [files EXCEPT ![argv.output] = File(SubSeq(buf, 1, n))]
          /\ envFail' = TRUE
          /\ MainFails
    /\ op' = "write_file"
    /\ called' = called \cup {"crypt", "write_file"}
    /\ UNCHANGED <<buf, key, buf0, key0, primVars, argv, size, heap, run, seen, applied>>

\* free(buffer.data); return 0
MainFree ==
    /\ mpc = "free"
    /\ heap' = "freed"
    /\ exit' = 0
    /\ mpc' = "done"
    /\ called' = called \cup {"free"}
    /\ UNCHANGED <<buf, key, op, buf0, key0, primVars, files, argv, size, run, envFail, seen, applied>>

\* the program run a second time, on the output path of the first run and
\* with the same key
SecondRun ==
    /\ mpc = "done"
    /\ run = 1
    /\ run' = 2
    /\ argv' = [argv EXCEPT !.input = argv.output, !.output = "back"]
    /\ mpc' = "start"
    /\ size' = 0
    /\ heap' = "none"
    /\ exit' = NoExit
    /\ called' = {}
    /\ op' = "none"
    /\ UNCHANGED <<buf, key, buf0, key0, primVars, files, envFail, seen, applied>>

NextFile ==
    \/ MainArgs
    \/ MainGetSize
    \/ MainAlloc
    \/ MainRead
    \/ MainCrypt
    \/ CryptZeroCheck
    \/ CryptStep
    \/ CryptReturn
    \/ MainWrite
    \/ MainFree
    \/ SecondRun

SpecFile == InitFile /\ [][NextFile]_vars

\* both runs were made with 4 arguments and the key "password", on an input
\* file that is there, and no I/O operation or allocation failed
RoundTripDone ==
    /\ run = 2
    /\ mpc = "done"
    /\ argv.argc = 4
    /\ argv.key = Password
    /\ files["in"].exists
    /\ ~envFail

\* C18: the program run on an input file with the key "password", and run
\* again on the file it wrote with the same key, leaves a file equal to the
\* input file byte for byte, whatever the length of the input file, 0
\* included.
C18_FileRoundTrip ==
    RoundTripDone =>
        /\ exit = 0
        /\ files["back"] = files["in"]

---------------------------------------------------------------------------
(* All the primitives on one buffer and one key: xor_crypt, hash, crypt,   *)
(* compute_mac and verify_mac called one after the other in any order.     *)

AllBufs == SeqsUpTo(HashBytes, MaxLen - 1)
AllKeys == SeqsUpTo(KeyBytes, MaxKeyLen - 2)

InitAll == InitMacWith(AllBufs, AllKeys)

AllComputeMac ==
    /\ calls < MaxCalls
    /\ ComputeMacCall

AllVerifyMac ==
    /\ calls < MaxCalls
    /\ \E m \in ClaimedMacs(mac) : VerifyMacCall(m)

CryptRuns == CryptZeroCheck \/ CryptStep \/ CryptReturn

NextAll ==
    \/ XorCrypt
    \/ HashCall
    \/ CryptCall
    \/ CryptRuns
    \/ AllComputeMac
    \/ AllVerifyMac

SpecAll == InitAll /\ [][NextAll]_vars

\* a crypt call that was entered is run: nothing but crypt itself stands
\* between two statements of its body
SpecAllFair == SpecAll /\ WF_vars(CryptRuns)

\* a crypt call is under way
InCrypt == pc \in {"crypt_check", "crypt_loop"}

\* the last call that was entered and is over is a call of f
Last(f) == op = f /\ ~InCrypt

\* C19: no primitive changes anything but its mutable data argument:
\* xor_crypt and crypt leave the size of the buffer and every byte of the
\* key as they were, and hash, compute_mac and verify_mac leave the message
\* buffer and the key buffer as they were.
C19_Frame ==
    /\ Len(buf) = Len(buf0)
    /\ key = key0
    /\ (Last("hash") \/ Last("compute_mac") \/ Last("verify_mac")) => buf = oldBuf

C19_Witness ==
    /\ Last("verify_mac")
    /\ calls = MaxCalls
    /\ Len(key) >= 1
    /\ Len(buf) = MaxLen - 1
    /\ buf # buf0
    /\ buf = oldBuf

\* the iterations counted at the return of each primitive, and inside crypt
LoopCounts ==
    /\ pc = "crypt_loop" => (i <= Len(buf) /\ iters.data = i /\ draws = i)
    /\ Last("hash") => (pc = "idle" /\ iters = [data |-> Len(buf), digest |-> 0])
    /\ (Last("xor_crypt") /\ Len(key) >= 1) =>
           (pc = "idle" /\ iters = [data |-> Len(buf), digest |-> 0])
    /\ Last("crypt") =>
           (pc = "idle" /\ iters = [data |-> Len(buf), digest |-> 0] /\ draws = Len(buf))
    /\ ((Last("compute_mac") \/ Last("verify_mac")) /\ Len(key) >= 1) =>
           (pc = "idle" /\ iters = [data |-> Len(buf), digest |-> 8])

\* C20: on a buffer of length n (and, for xor_crypt and compute_mac, with a
\* key of length >= 1) each of hash, xor_crypt, crypt, compute_mac and
\* verify_mac runs exactly n iterations of its loop over the input (8 over
\* the bytes of the hash inside compute_mac), and returns: a crypt call
\* that was entered comes to its return.
C20_Termination ==
    /\ []LoopCounts
    /\ InCrypt ~> (pc = "idle" /\ op = "crypt")

C20_Witness ==
    /\ Last("crypt")
    /\ calls = MaxCalls
    /\ Len(buf) = MaxLen - 1
    /\ draws = Len(buf)
    /\ iters.data = Len(buf)

---------------------------------------------------------------------------
(* Claims about the order of the statements of main (SpecFile).            *)

\* main has returned without calling write_file
ReturnedEarly == mpc = "done" /\ "write_file" \notin called

\* C21: the output file is written only after the whole input file was read:
\* if the argument count is not 4, get_file_size returns 0, the allocation
\* fails or read_file returns false, main returns 1 without calling crypt or
\* write_file; it returns 0 only when write_file wrote all buf.size bytes.
C21_WriteAfterRead ==
    /\ ReturnedEarly =>
           /\ exit = 1
           /\ pc = "idle"
           /\ op \in {"none", "read_file"}
           /\ ~files[argv.output].exists
    /\ (mpc = "done" /\ argv.argc # 4) => (ReturnedEarly /\ called = {})
    /\ (mpc = "done" /\ argv.argc = 4 /\ size = 0) =>
           (ReturnedEarly /\ called = {"get_file_size"})
    /\ (mpc = "done" /\ heap = "none" /\ "malloc" \in called) =>
           (ReturnedEarly /\ called = {"get_file_size", "malloc"})
    /\ (InCrypt \/ op \in {"crypt", "write_file"}) =>
           /\ {"get_file_size", "malloc", "read_file"} \subseteq called
           /\ buf0 = files[argv.input].data
           /\ Len(buf0) = size
           /\ Len(buf) = size
    /\ exit = 0 =>
           /\ mpc = "done"
           /\ "write_file" \in called
           /\ files[argv.output] = File(buf)
           /\ Len(buf) = size

\* read_file has returned false and main 1, nothing being written
C21_Witness ==
    /\ ReturnedEarly
    /\ run = 1
    /\ exit = 1
    /\ called = {"get_file_size", "malloc", "read_file"}
    /\ op = "read_file"
    /\ size = MaxFileLen
    /\ ~files["out"].exists

\* C27: on every path on which main returns after the buffer was allocated
\* (read failure, write failure, success) the buffer has been freed, once,
\* before the return.
C27_FreedOnEveryReturn ==
    (mpc = "done" /\ {"malloc", "read_file"} \subseteq called) => heap = "freed"

---------------------------------------------------------------------------
(* Claims about the generator inside crypt (SpecStream: MaxDraws bytes).   *)

\* C22: within one crypt call the keystream does not cycle: the generator
\* states used for the positions 0..n-1, and the seed they come from, are
\* pairwise distinct for every key and every processed length n <= MaxDraws.
C22_StatesDistinct ==
    (pc = "crypt_loop" \/ Last("crypt")) => Cardinality(seen) = draws + 1

C22_Witness ==
    /\ Last("crypt")
    /\ key = ZeroHashKey
    /\ draws = MaxDraws
    /\ Cardinality(seen) = MaxDraws + 1

\* C24: prng takes a nonzero state to a nonzero state, so that after the one
\* zero check at seeding the state is nonzero at every later step of the
\* crypt call.
C24_NonzeroPreserved ==
    /\ (pc = "crypt_loop" \/ Last("crypt")) => state # W_Zero
    /\ (pc = "crypt_loop" /\ draws > 0 /\ oldState # W_Zero) => state # W_Zero
    /\ (pc = "crypt_loop" \/ Last("crypt")) => W_Zero \notin seen

C24_Witness ==
    /\ pc = "crypt_loop"
    /\ hashed = W_Zero
    /\ draws = MaxDraws
    /\ oldState # W_Zero
    /\ state # W_Zero

---------------------------------------------------------------------------
(* Claims about the byte order and the key bytes of compute_mac.           *)

\* C23: the value compute_mac(D, K) returns is the same whether the 8 bytes
\* of the hash lie in memory least significant first or most significant
\* first, for every D and K.
C23_MacByteOrderFree ==
    (MacComputed /\ pc = "idle") =>
        compute_mac(buf, key, "little") = compute_mac(buf, key, "big")

---------------------------------------------------------------------------
(* compute_mac on a message and a key, then verify_mac of its result with  *)
(* another key or on another message: the MACs of two keys, and of two     *)
(* messages, compared.                                                     *)

\* two messages of one hash: 33 * 1 + 0 = 33 * 0 + 33
Collision1 == <<1, 0>>
Collision2 == <<0, 33>>
\* "s3cr3t_p4ssw0rd" with another byte at index 8
MainKeyOther8 == [MainKey EXCEPT ![9] = 0]

PairMsgs == SeqsUpTo(DataBytes, MaxLen - 2) \cup {Collision1, Collision2}
PairKeys == (SeqsUpTo(KeyBytes, MaxKeyLen - 1) \ {<<>>}) \cup {MainKey, MainKeyOther8}

InitPair == InitMacWith(PairMsgs, PairKeys)

\* the caller's key buffer set to another key
OtherKey ==
    /\ pc = "idle"
    /\ op = "compute_mac"
    /\ \E k \in PairKeys :
          /\ k # key
          /\ key' = k
    /\ op' = "other_key"
    /\ UNCHANGED <<buf, state, ret, pc, i, calls, draws, buf0, oldBuf, oldState, oldRet,
                   hashed, allZero, key0, iters, macVars, fileVars, seen, applied>>

\* the caller's message buffer set to another message
OtherMsg ==
    /\ pc = "idle"
    /\ op = "compute_mac"
    /\ \E d \in PairMsgs :
          /\ d # buf
          /\ buf' = d
    /\ op' = "other_msg"
    /\ UNCHANGED <<key, state, ret, pc, i, calls, draws, buf0, oldBuf, oldState, oldRet,
                   hashed, allZero, key0, iters, macVars, fileVars, seen, applied>>

\* verify_mac(&buf, &key, mac) with the value compute_mac returned
PairVerify ==
    /\ op \in {"other_key", "other_msg"}
    /\ VerifyMacCall(mac)

NextPair == MacCompute \/ OtherKey \/ OtherMsg \/ PairVerify

SpecPair == InitPair /\ [][NextPair]_vars

\* the key byte used for byte j of the hash, j = 0..7
Cyc8(k) == [j \in 0..7 |-> k[(j % Len(k)) + 1]]

\* verify_mac has compared the MAC of (buf, key) with that of macOf
PairCompared == Last("verify_mac") /\ pc = "idle" /\ claimed = mac

\* C25: two keys K1, K2 (length >= 1) with K1[j mod K1.size] = K2[j mod K2.size]
\* for all j in 0..7 give compute_mac(D, K1) = compute_mac(D, K2) for every D:
\* the key bytes at index 8 and beyond never reach the MAC.
C25_OnlyKeyBytesBelow8 ==
    (/\ PairCompared
     /\ buf = macOf.data
     /\ Len(key) >= 1 /\ Len(macOf.key) >= 1
     /\ Cyc8(key) = Cyc8(macOf.key)) =>
        verified = TRUE

C25_Witness ==
    /\ PairCompared
    /\ buf = macOf.data
    /\ macOf.key = MainKey
    /\ key = MainKeyOther8
    /\ verified = TRUE

\* C26: for one key K (length >= 1), compute_mac(D1, K) = compute_mac(D2, K)
\* if and only if hash(D1) = hash(D2).
C26_MacCollidesAsHash ==
    (PairCompared /\ key = macOf.key /\ Len(key) >= 1) =>
        (verified <=> (hash(buf) = hash(macOf.data)))

C26_Witness ==
    /\ PairCompared
    /\ key = macOf.key
    /\ macOf.data = Collision1
    /\ buf = Collision2
    /\ verified = TRUE

---------------------------------------------------------------------------
(* xor_crypt and crypt applied to one buffer again and again, each time    *)
(* with any key of a set of non-empty keys.                                *)

MixBufs == SeqsUpTo(HashBytes, MaxLen - 1)
MixKeys == SeqsUpTo(KeyBytes, MaxKeyLen - 2) \ {<<>>}

InitMix == InitCryptWith(MixBufs, MixKeys)

\* the pair p one more time in the set S of the pairs applied an odd number
\* of times
Toggle(S, p) == IF p \in S THEN S \ {p} ELSE S \cup {p}

\* xor_crypt(&buf, &k)
MixXor ==
    /\ pc = "idle"
    /\ calls < MaxMixCalls
    /\ \E k \in MixKeys :
          /\ key' = k
          /\ buf' = xor_crypt(buf, k)
          /\ applied' = Toggle(applied, <<"xor_crypt", k>>)
    /\ oldBuf' = buf
    /\ op' = "xor_crypt"
    /\ calls' = calls + 1
    /\ iters' = [data |-> for_iters(0, Len(buf)), digest |-> 0]
    /\ UNCHANGED <<state, ret, pc, i, draws, buf0, oldState, oldRet, hashed, allZero,
                   key0, macVars, fileVars, seen>>

\* crypt(&buf, &k)
MixCrypt ==
    /\ pc = "idle"
    /\ calls < MaxMixCalls
    /\ \E k \in MixKeys :
          /\ key' = k
          /\ buf' = crypt(buf, k)
          /\ applied' = Toggle(applied, <<"crypt", k>>)
    /\ oldBuf' = buf
    /\ op' = "crypt"
    /\ calls' = calls + 1
    /\ iters' = [data |-> for_iters(0, Len(buf)), digest |-> 0]
    /\ UNCHANGED <<state, ret, pc, i, draws, buf0, oldState, oldRet, hashed, allZero,
                   key0, macVars, fileVars, seen>>

NextMix == MixXor \/ MixCrypt

SpecMix == InitMix /\ [][NextMix]_vars

\* the primitive of the pair p applied to b with the key of the pair
ApplyPair(b, p) == IF p[1] = "xor_crypt" THEN xor_crypt(b, p[2]) ELSE crypt(b, p[2])

RECURSIVE ApplyEach(_, _)
\* every pair of S applied to b once, in the order CHOOSE takes them
ApplyEach(b, S) ==
    IF S = {}
    THEN b
    ELSE The({ApplyEach(ApplyPair(b, p), S \ {p}) : p \in {CHOOSE q \in S : TRUE}})

\* C28: after any sequence of xor_crypt and crypt applications to one buffer
\* with non-empty keys, the buffer depends only on the parity of the number
\* of applications of each (primitive, key) pair, not on their order: it is
\* what one application of each pair of odd count, in one fixed order, makes
\* of the first buffer.
C28_ParityOnly == buf = ApplyEach(buf0, applied)

C28_Witness ==
    /\ calls = MaxMixCalls
    /\ op = "xor_crypt"
    /\ applied = {<<"crypt", <<1>>>>}
    /\ Len(buf) = MaxLen - 1
    /\ buf # buf0

===========================================================================
